---- MODULE Spec2Model ----
\* A model of src/main.py: the lunar-interval extraction and resolution engine
\* (extract_intervals, _parse_dt, pick_current, build_payload) and the
\* module-level TTLCache it memoizes into.
\*
\* Text is a sequence of phrases.  A phrase that RE_INTERVAL matches is a record
\* holding the captured groups; other phrases (a bare "N-й лунный день", noise)
\* are records of kind "bare" / "noise" that the pattern does not match.
\* Russian words are written transliterated.
EXTENDS Integers, Sequences, FiniteSets, TLC

VARIABLES
    cache,      \* the module-level TTLCache: [data, links, expires]
    timer,      \* the cache's monotonic clock
    upstream,   \* the normalized text the calendar page currently yields
    pc,         \* per request thread: "idle", "getitem" or "fetch"
    req,        \* per request thread: the date d and the entry's state at line 165
    ret,        \* the last finished request: what the caller observed
    stored,     \* per date: value and time of the last cache[cache_key] = result
    ivs,        \* input of pick_current / build_payload: the interval list
    now_msk,    \* input of pick_current / build_payload: the instant now
    picked,     \* output of pick_current
    payload     \* output of build_payload

vars == <<cache, timer, upstream, pc, req, ret, stored, ivs, now_msk, picked, payload>>

None == [none |-> TRUE]

\* ---------------------------------------------------------------- bounds
MaxIntervals == 3   \* longest interval list handed to pick_current
MaxTextLen == 3     \* longest page text, in phrases
MaxTimer == 2       \* last tick of the cache clock
maxsize == 2        \* capacity of the cache (3000 in the source, scaled down)

\* ---------------------------------------------------------------- config
CACHE_TTL_SECONDS == 2
ExcerptLen == 1200
MaxMatches == 4
MaxResult == 2
MskOffsetMinutes == 180

\* ---------------------------------------------------------------- datetime
IsLeap(y) == (y % 4 = 0 /\ y % 100 # 0) \/ y % 400 = 0

DaysInMonth(y, m) ==
    IF m = 2 THEN (IF IsLeap(y) THEN 29 ELSE 28)
    ELSE IF m \in {4, 6, 9, 11} THEN 30 ELSE 31

RECURSIVE DaysBeforeMonth(_, _)
DaysBeforeMonth(y, m) ==
    IF m <= 1 THEN 0 ELSE DaysBeforeMonth(y, m - 1) + DaysInMonth(y, m - 1)

RECURSIVE DaysBeforeYear(_)
DaysBeforeYear(y) ==
    IF y <= 2024 THEN 0
    ELSE DaysBeforeYear(y - 1) + (IF IsLeap(y - 1) THEN 366 ELSE 365)

\* datetime(year, month, day, hour, minute, tzinfo=MSK): the constructor
\* raises ValueError on a field out of range.
ValidFields(y, m, d, hh, mm) ==
    /\ m \in 1..12
    /\ d >= 1 /\ d <= DaysInMonth(y, m)
    /\ hh \in 0..23
    /\ mm \in 0..59

datetime(y, m, d, hh, mm, ss) ==
    [year |-> y, month |-> m, day |-> d, hour |-> hh, minute |-> mm,
     second |-> ss, utcoffset |-> MskOffsetMinutes]

\* Seconds since 2024 began, in UTC: what the comparison of two
\* aware datetimes and their difference are computed from.
Timestamp(dt) ==
    ((DaysBeforeYear(dt.year) + DaysBeforeMonth(dt.year, dt.month) + (dt.day - 1)) * 1440
        + dt.hour * 60 + dt.minute - dt.utcoffset) * 60 + dt.second

\* datetime.isoformat(): "YYYY-MM-DDTHH:MM:SS+03:00" as its fields in order.
isoformat(dt) ==
    <<dt.year, dt.month, dt.day, dt.hour, dt.minute, dt.second, dt.utcoffset>>

\* datetime.fromisoformat()
fromisoformat(s) ==
    [year |-> s[1], month |-> s[2], day |-> s[3], hour |-> s[4], minute |-> s[5],
     second |-> s[6], utcoffset |-> s[7]]

\* date.isoformat(): "YYYY-MM-DD"
date_isoformat(d) == <<d.year, d.month, d.day>>

\* ---------------------------------------------------------------- months
RU_MONTH ==
    [yanvarya |-> 1, fevralya |-> 2, marta |-> 3, aprelya |-> 4, maya |-> 5,
     iyunya |-> 6, iyulya |-> 7, avgusta |-> 8, sentyabrya |-> 9,
     oktyabrya |-> 10, noyabrya |-> 11, dekabrya |-> 12]

\* str.lower() on the month words the texts use
lower(w) == IF w = "Dekabrya" THEN "dekabrya" ELSE w

\* _month_num: the month number, or 0 where the source raises HTTPException 502.
_month_num(month_ru) ==
    IF lower(month_ru) \in DOMAIN RU_MONTH THEN RU_MONTH[lower(month_ru)] ELSE 0

\* _parse_dt: [ok, dt] or [ok |-> FALSE, exc] for the exception it ends with.
_parse_dt(year, day, month_ru, time_str) ==
    LET m == _month_num(month_ru)
        hh == time_str[1]
        mm == time_str[2]
    IN  IF m = 0 THEN [ok |-> FALSE, exc |-> "UnknownMonth"]
        ELSE IF ~ValidFields(year, m, day, hh, mm) THEN [ok |-> FALSE, exc |-> "ValueError"]
        ELSE [ok |-> TRUE, dt |-> datetime(year, m, day, hh, mm, 0)]

\* ---------------------------------------------------------------- page text
\* A phrase RE_INTERVAL matches, with its groups: day, zodiac, d1 m1 t1, d2 m2 t2.
Occ(day, zodiac, d1, m1, t1, d2, m2, t2) ==
    [kind |-> "interval", day |-> day, zodiac |-> zodiac,
     d1 |-> d1, m1 |-> m1, t1 |-> t1, d2 |-> d2, m2 |-> m2, t2 |-> t2]

\* "6 лунный день 24 декабря 11:35 — 25 декабря 11:42"
OccA == Occ(6, "", 24, "dekabrya", <<11, 35>>, 25, "dekabrya", <<11, 42>>)
\* "7 лунный день Рыбы 25 Декабря 11:42 — 26 декабря 11:49"
OccB == Occ(7, "Ryby", 25, "Dekabrya", <<11, 42>>, 26, "dekabrya", <<11, 49>>)
\* "13 лунный день 31 декабря 23:10 — 1 января 0:05"
OccNewYear == Occ(13, "", 31, "dekabrya", <<23, 10>>, 1, "yanvarya", <<0, 5>>)
\* "8 лунный день 26 мартобря 11:49 — 27 мартобря 11:55": no such month
OccBadMonth == Occ(8, "", 26, "martobrya", <<11, 49>>, 27, "martobrya", <<11, 55>>)
\* "9 лунный день 30 февраля 10:00 — 31 марта 10:05": no such day
OccBadDay == Occ(9, "", 30, "fevralya", <<10, 0>>, 31, "marta", <<10, 5>>)
\* "6-й лунный день": the pattern wants "<digits> <space> лунный", so no match
BarePhrase == [kind |-> "bare", day |-> 6]
\* any other run of words
Noise == [kind |-> "noise"]

Phrases == {OccA, OccB, OccNewYear, OccBadMonth, OccBadDay, BarePhrase, Noise}

RECURSIVE SeqsUpTo(_, _)
SeqsUpTo(S, n) ==
    IF n = 0 THEN {<<>>}
    ELSE LET shorter == SeqsUpTo(S, n - 1)
         IN  shorter \cup {Append(t, x) : t \in {u \in shorter : Len(u) = n - 1}, x \in S}

AllTexts == SeqsUpTo(Phrases, MaxTextLen)

Take(s, n) == SubSeq(s, 1, IF Len(s) < n THEN Len(s) ELSE n)

\* list(RE_INTERVAL.finditer(text)): the matching phrases, in text order
IsMatch(ph) == ph.kind = "interval"
finditer(text) == SelectSeq(text, IsMatch)

\* One turn of the loop body of extract_intervals (lines 177-194).
interval_of(year, m) ==
    LET start_dt == _parse_dt(year, m.d1, m.m1, m.t1)
        end_dt == _parse_dt(year, m.d2, m.m2, m.t2)
    IN  IF ~start_dt.ok THEN [ok |-> FALSE, exc |-> start_dt.exc]
        ELSE IF ~end_dt.ok THEN [ok |-> FALSE, exc |-> end_dt.exc]
        ELSE [ok |-> TRUE,
              it |-> [day |-> m.day, zodiac |-> m.zodiac,
                      startIso |-> isoformat(start_dt.dt),
                      endIso |-> isoformat(end_dt.dt),
                      startTime |-> <<start_dt.dt.hour, start_dt.dt.minute>>,
                      endTime |-> <<end_dt.dt.hour, end_dt.dt.minute>>,
                      startText |-> <<m.d1, m.m1, m.t1>>,
                      endText |-> <<m.d2, m.m2, m.t2>>]]

\* The loop `for m in matches[:4]`: the intervals appended so far, or the
\* exception of the first match that fails to parse.
RECURSIVE parse_loop(_, _, _, _)
parse_loop(year, ms, i, acc) ==
    IF i > Len(ms) THEN [ok |-> TRUE, intervals |-> acc]
    ELSE LET r == interval_of(year, ms[i])
         IN  IF ~r.ok THEN [ok |-> FALSE, exc |-> r.exc]
             ELSE parse_loop(year, ms, i + 1, Append(acc, r.it))

\* extract_intervals after the fetch (lines 169-196): the result list, or the
\* exception raised, with the excerpt the warning logs.
parse_text(year, text) ==
    LET matches == finditer(text)
    IN  IF matches = <<>>
        THEN [ok |-> FALSE, exc |-> "NoMatch", logged |-> Take(text, ExcerptLen)]
        ELSE LET r == parse_loop(year, Take(matches, MaxMatches), 1, <<>>)
             IN  IF ~r.ok THEN [ok |-> FALSE, exc |-> r.exc, logged |-> <<>>]
                 ELSE [ok |-> TRUE, result |-> Take(r.intervals, MaxResult)]

\* ---------------------------------------------------------------- selector
\* The loop of lines 208-211: (s, e, it) for each interval.
parsed_of(intervals) ==
    [i \in 1..Len(intervals) |->
        [s |-> fromisoformat(intervals[i].startIso),
         e |-> fromisoformat(intervals[i].endIso),
         it |-> intervals[i]]]

\* The end of the interval taken as inside it.
inside_closed_end(s, e, now) ==
    Timestamp(s) <= Timestamp(now) /\ Timestamp(now) <= Timestamp(e)

\* s <= now < e on aware datetimes
inside(s, e, now) == Timestamp(s) <= Timestamp(now) /\ Timestamp(now) < Timestamp(e)

\* The loop of lines 214-216: the index of the first interval holding now, or 0.
RECURSIVE first_inside(_, _, _)
first_inside(parsed, i, now) ==
    IF i > Len(parsed) THEN 0
    ELSE IF inside(parsed[i].s, parsed[i].e, now) THEN i
    ELSE first_inside(parsed, i + 1, now)

pick_current(intervals, now) ==
    LET parsed == parsed_of(intervals)
        i == first_inside(parsed, 1, now)
    IN  IF i # 0 THEN parsed[i].it
        ELSE IF Timestamp(now) < Timestamp(parsed[1].s) THEN parsed[1].it
        ELSE parsed[Len(parsed)].it

\* The end counted as still ahead at the instant it is reached.
next_switch_of_or_equal(current_end, now) ==
    IF Timestamp(current_end) >= Timestamp(now) THEN current_end ELSE None

\* current_end if current_end > now_msk else None
next_switch_of(current_end, now) ==
    IF Timestamp(current_end) > Timestamp(now) THEN current_end ELSE None

\* One rendered line of lines 237-241.
line_of(it) ==
    IF it.zodiac # "" THEN <<it.day, "lunnyj den", it.zodiac, it.startText, it.endText>>
    ELSE <<it.day, "lunnyj den", it.startText, it.endText>>

\* build_payload after extract_intervals returned (lines 228-252).
\* int(timedelta.total_seconds()) on whole seconds is the difference.
payload_of(d, intervals, now) ==
    LET current == pick_current(intervals, now)
        current_end == fromisoformat(current.endIso)
        next_switch == next_switch_of(current_end, now)
    IN  [date |-> date_isoformat(d),
         nowIso |-> isoformat(now),
         lines |-> [i \in 1..Len(intervals) |-> line_of(intervals[i])],
         intervals |-> intervals,
         current |-> current,
         nextSwitchAtIso |-> IF next_switch # None THEN isoformat(next_switch) ELSE None,
         nextSwitchInSeconds |->
            IF next_switch # None THEN Timestamp(next_switch) - Timestamp(now) ELSE None]

\* ---------------------------------------------------------------- cache
\* cache = TTLCache(maxsize, ttl): data maps key to value, links is the
\* recency order (least recently used first), expires maps key to expiry time.
\* The operations follow cachetools 5: an entry is expired once the timer
\* is not before its expiry, expired entries stay held until the next store
\* removes them, and every operation reads the timer on its own.
EmptyCache == [data |-> [k \in {} |-> <<>>], links |-> <<>>, expires |-> [k \in {} |-> 0]]

Keys(c) == DOMAIN c.data

Without(c, gone) ==
    [data |-> [k \in Keys(c) \ gone |-> c.data[k]],
     links |-> SelectSeq(c.links, LAMBDA k : k \notin gone),
     expires |-> [k \in Keys(c) \ gone |-> c.expires[k]]]

\* Membership as a plain dict would answer it, expiry not looked at.
contains_ignoring_expiry(c, key, time) == key \in DOMAIN c.data

\* TTLCache.__contains__: present and not yet expired; no reordering
TTLCache_contains(c, key, time) ==
    key \in Keys(c) /\ time < c.expires[key]

\* TTLCache.expire(time): drop every entry whose expiry is not after time
TTLCache_expire(c, time) ==
    Without(c, {k \in Keys(c) : ~(time < c.expires[k])})

\* TTLCache.popitem: expire, then drop the least recently used entry
TTLCache_popitem(c, time) ==
    LET c1 == TTLCache_expire(c, time)
    IN  IF c1.links = <<>> THEN c1 ELSE Without(c1, {Head(c1.links)})

\* A store that never makes room.
make_room_skipped(c, time) == c

\* Cache.__setitem__: `while currsize + size > maxsize: self.popitem()`
RECURSIVE make_room(_, _)
make_room(c, time) ==
    IF Cardinality(Keys(c)) + 1 > maxsize /\ c.links # <<>>
    THEN make_room(TTLCache_popitem(c, time), time)
    ELSE c

\* TTLCache.__setitem__ at one reading of the timer
TTLCache_setitem(c, key, value, time) ==
    LET c1 == TTLCache_expire(c, time)
        c2 == IF key \notin Keys(c1) THEN make_room(c1, time) ELSE c1
    IN  [data |-> [k \in Keys(c2) \cup {key} |-> IF k = key THEN value ELSE c2.data[k]],
         links |-> Append(SelectSeq(c2.links, LAMBDA k : k # key), key),
         expires |-> [k \in Keys(c2) \cup {key} |->
                        IF k = key THEN time + CACHE_TTL_SECONDS ELSE c2.expires[k]]]

\* TTLCache.__getitem__: the link moves to the end of the recency order, then
\* an absent or expired key ends in __missing__, which raises KeyError.
TTLCache_getitem(c, key, time) ==
    IF key \notin Keys(c) THEN [found |-> FALSE, cache |-> c]
    ELSE LET moved == [c EXCEPT !.links = Append(SelectSeq(c.links, LAMBDA k : k # key), key)]
         IN  IF ~(time < c.expires[key]) THEN [found |-> FALSE, cache |-> moved]
             ELSE [found |-> TRUE, cache |-> moved, value |-> c.data[key]]

\* A key that leaves the date out.
cache_key_without_date(d) == <<"intervals_iso", <<>>>>

\* cache_key = ("intervals_iso", date_str)
cache_key(d) == <<"intervals_iso", date_isoformat(d)>>

\* ---------------------------------------------------------------- requests
\* Two request threads of the server's pool.
Procs == {"t1", "t2"}

\* The query dates: 31 December of successive years, one more than the cache holds.
Dates == {[year |-> 2024 + i, month |-> 12, day |-> 31] : i \in 0..maxsize}

\* What the caller of extract_intervals observes (build_payload adds nothing to
\* the shared state; its tail is payload_of, run in BuildPayload below).  exc is "" on success, else the
\* exception; excerpt is the text the exception itself carries (every detail
\* string in the source is fixed or names a status, a month word or a transport
\* error, none quotes the page text); logged is what logger.warning was given.
Outcome(d, exc, status, fetched, hit, value, logged) ==
    [d |-> d, exc |-> exc, status |-> status, fetched |-> fetched,
     hit |-> hit, value |-> value, logged |-> logged, excerpt |-> <<>>,
     held |-> FALSE, age |-> 0]

\* The same for a request that reached the read of line 166: held tells whether
\* the cache held the key at the read, age the time since it was last stored.
ReadOutcome(d, exc, status, hit, value, held, age) ==
    [Outcome(d, exc, status, FALSE, hit, value, <<>>) EXCEPT !.held = held, !.age = age]

\* The entry of date d as a request finds it: "absent", "stale" (held, its TTL
\* elapsed) or "live".
entry_state(d) ==
    IF cache_key(d) \notin Keys(cache) THEN "absent"
    ELSE IF timer - stored[d].at >= CACHE_TTL_SECONDS THEN "stale"
    ELSE "live"

Idle == [d |-> None, seen |-> "absent"]

NeverStored == [value |-> <<>>, at |-> -1]

\* Lines 163-165: a request for date d starts and tests `cache_key in cache`.
Request(p, d) ==
    /\ pc[p] = "idle"
    /\ LET key == cache_key(d)
       IN  /\ pc' = [pc EXCEPT ![p] =
                        IF TTLCache_contains(cache, key, timer) THEN "getitem" ELSE "fetch"]
           /\ req' = [req EXCEPT ![p] =
                        [d |-> d, seen |-> entry_state(d)]]
    /\ UNCHANGED <<cache, timer, upstream, ret, stored, ivs, now_msk, picked, payload>>

\* Line 166, `return cache[cache_key]`.
GetItemHit(p) ==
    /\ pc[p] = "getitem"
    /\ LET r == TTLCache_getitem(cache, cache_key(req[p].d), timer)
       IN  /\ r.found
           /\ cache' = r.cache
           /\ ret' = ReadOutcome(req[p].d, "", 200, TRUE, r.value,
                                 TRUE, timer - stored[req[p].d].at)
    /\ pc' = [pc EXCEPT ![p] = "idle"]
    /\ req' = [req EXCEPT ![p] = Idle]
    /\ UNCHANGED <<timer, upstream, stored, ivs, now_msk, picked, payload>>

\* Line 166 when the key is gone or expired by now: KeyError leaves the
\* handler, which the framework turns into a 500.
GetItemMiss(p) ==
    /\ pc[p] = "getitem"
    /\ LET r == TTLCache_getitem(cache, cache_key(req[p].d), timer)
       IN  /\ ~r.found
           /\ cache' = r.cache
           /\ ret' = ReadOutcome(req[p].d, "KeyError", 500, FALSE, <<>>,
                                 cache_key(req[p].d) \in Keys(cache),
                                 timer - stored[req[p].d].at)
    /\ pc' = [pc EXCEPT ![p] = "idle"]
    /\ req' = [req EXCEPT ![p] = Idle]
    /\ UNCHANGED <<timer, upstream, stored, ivs, now_msk, picked, payload>>

\* fetch_page_text raising: Timeout (504), a transport error or a non-200
\* answer (502).
FetchFailures ==
    {<<"Timeout", 504>>, <<"RequestException", 502>>, <<"Non200", 502>>}

FetchFails(p) ==
    /\ pc[p] = "fetch"
    /\ \E f \in FetchFailures :
          ret' = Outcome(req[p].d, f[1], f[2], TRUE, FALSE, <<>>, <<>>)
    /\ pc' = [pc EXCEPT ![p] = "idle"]
    /\ req' = [req EXCEPT ![p] = Idle]
    /\ UNCHANGED <<cache, timer, upstream, stored, ivs, now_msk, picked, payload>>

\* Status of the exception that ends extract_intervals after a good fetch:
\* HTTPException(502) for no match and for an unknown month word; ValueError
\* from the datetime constructor is not caught and becomes a 500.
status_of(exc) == IF exc = "ValueError" THEN 500 ELSE 502

\* Lines 168-173 and the loop raising: the page came, resolution fails.
ParseFails(p) ==
    /\ pc[p] = "fetch"
    /\ LET r == parse_text(req[p].d.year, upstream)
       IN  /\ ~r.ok
           /\ ret' = Outcome(req[p].d, r.exc, status_of(r.exc), TRUE, FALSE,
                             <<>>, r.logged)
    /\ pc' = [pc EXCEPT ![p] = "idle"]
    /\ req' = [req EXCEPT ![p] = Idle]
    /\ UNCHANGED <<cache, timer, upstream, stored, ivs, now_msk, picked, payload>>

\* Lines 168-198: the page came and parsed; the result is stored and returned.
ResolveOk(p) ==
    /\ pc[p] = "fetch"
    /\ LET r == parse_text(req[p].d.year, upstream)
       IN  /\ r.ok
           /\ cache' = TTLCache_setitem(cache, cache_key(req[p].d), r.result, timer)
           /\ stored' = [stored EXCEPT ![req[p].d] = [value |-> r.result, at |-> timer]]
           /\ ret' = Outcome(req[p].d, "", 200, TRUE, FALSE, r.result, <<>>)
    /\ pc' = [pc EXCEPT ![p] = "idle"]
    /\ req' = [req EXCEPT ![p] = Idle]
    /\ UNCHANGED <<timer, upstream, ivs, now_msk, picked, payload>>

\* Time passes.
Tick ==
    /\ timer < MaxTimer
    /\ timer' = timer + 1
    /\ UNCHANGED <<cache, upstream, pc, req, ret, stored, ivs, now_msk, picked, payload>>

\* The pages the cache is exercised with.
Pages == {<<OccA, OccB>>, <<Noise>>}
ThreadPages == {<<OccA, OccB>>, <<Noise>>}

\* The calendar site publishes another text.
PageChanges ==
    /\ upstream' \in Pages \ {upstream}
    /\ UNCHANGED <<cache, timer, pc, req, ret, stored, ivs, now_msk, picked, payload>>

InitWith(texts) ==
    /\ cache = EmptyCache
    /\ timer = 0
    /\ upstream \in texts
    /\ pc = [p \in Procs |-> "idle"]
    /\ req = [p \in Procs |-> Idle]
    /\ ret = None
    /\ stored = [d \in Dates |-> NeverStored]
    /\ ivs = <<>>
    /\ now_msk = None
    /\ picked = None
    /\ payload = None

Init == InitWith(Pages)

\* One request at a time; time passes and the page changes at any point of it.
Next ==
    \/ \E d \in Dates : Request("t1", d)
    \/ GetItemHit("t1")
    \/ GetItemMiss("t1")
    \/ FetchFails("t1")
    \/ ParseFails("t1")
    \/ ResolveOk("t1")
    \/ Tick
    \/ PageChanges

Spec == Init /\ [][Next]_vars

\* Two requests served by two threads of the pool, interleaved at the cache
\* operations.
NextThreads ==
    \/ \E p \in Procs, d \in Dates : Request(p, d)
    \/ \E p \in Procs : GetItemHit(p)
    \/ \E p \in Procs : GetItemMiss(p)
    \/ \E p \in Procs : FetchFails(p)
    \/ \E p \in Procs : ParseFails(p)
    \/ \E p \in Procs : ResolveOk(p)
    \/ Tick

InitThreads == InitWith(ThreadPages)

SpecThreads == InitThreads /\ [][NextThreads]_vars

\* extract_intervals as a function of the page text: every text up to
\* MaxTextLen phrases, requests one at a time, the clock standing still.
InitExtract == InitWith(AllTexts)

NextExtract ==
    \/ \E d \in Dates : Request("t1", d)
    \/ GetItemHit("t1")
    \/ FetchFails("t1")
    \/ ParseFails("t1")
    \/ ResolveOk("t1")

SpecExtract == InitExtract /\ [][NextExtract]_vars

\* ---------------------------------------------------------------- selector runs
\* pick_current and build_payload as functions of (intervals, now).
Stamp1 == datetime(2024, 12, 24, 11, 35, 0)
Stamp2 == datetime(2024, 12, 25, 11, 42, 0)
Stamp3 == datetime(2024, 12, 26, 11, 49, 0)
Stamps == {Stamp1, Stamp2, Stamp3}

Nows ==
    Stamps \cup {datetime(2024, 12, 24, 11, 34, 30), datetime(2024, 12, 25, 9, 0, 0),
                 datetime(2024, 12, 26, 11, 48, 59), datetime(2024, 12, 26, 11, 49, 1)}

\* An interval dict as extract_intervals builds it, for lunar day `day`.
interval_dict(day, s, e) ==
    [day |-> day, zodiac |-> "",
     startIso |-> isoformat(s), endIso |-> isoformat(e),
     startTime |-> <<s.hour, s.minute>>, endTime |-> <<e.hour, e.minute>>,
     startText |-> <<s.day, "dekabrya", <<s.hour, s.minute>>>>,
     endText |-> <<e.day, "dekabrya", <<e.hour, e.minute>>>>]

\* Every list of 1..MaxIntervals intervals over the stamps, the i-th being
\* lunar day i; ordered or not, well-formed or not.
IntervalLists ==
    UNION {{[i \in 1..n |-> interval_dict(i, se[i][1], se[i][2])] :
                se \in [1..n -> Stamps \X Stamps]} : n \in 1..MaxIntervals}

QueryDate == [year |-> 2024, month |-> 12, day |-> 25]

InitSelect ==
    /\ cache = EmptyCache
    /\ timer = 0
    /\ upstream = <<>>
    /\ pc = [p \in Procs |-> "idle"]
    /\ req = [p \in Procs |-> Idle]
    /\ ret = None
    /\ stored = [d \in Dates |-> NeverStored]
    /\ ivs \in IntervalLists
    /\ now_msk \in Nows
    /\ picked = None
    /\ payload = None

PickCurrent ==
    /\ picked = None
    /\ picked' = pick_current(ivs, now_msk)
    /\ UNCHANGED <<cache, timer, upstream, pc, req, ret, stored, ivs, now_msk, payload>>

BuildPayload ==
    /\ payload = None
    /\ payload' = payload_of(QueryDate, ivs, now_msk)
    /\ UNCHANGED <<cache, timer, upstream, pc, req, ret, stored, ivs, now_msk, picked>>

NextSelect == PickCurrent \/ BuildPayload

SpecSelect == InitSelect /\ [][NextSelect]_vars

\* ================================================================ claims
StartOf(it) == Timestamp(fromisoformat(it.startIso))
EndOf(it) == Timestamp(fromisoformat(it.endIso))
Min(S) == CHOOSE x \in S : \A y \in S : x <= y

\* C1: pick_current returns one interval of the list: the first in list order
\* with start <= now < end if there is one, otherwise the first interval if now
\* is before the first start, otherwise the last interval.
C1_PickCurrentRule ==
    picked # None =>
        LET n == Len(ivs)
            now == Timestamp(now_msk)
            holding == {i \in 1..n : StartOf(ivs[i]) <= now /\ now < EndOf(ivs[i])}
        IN  /\ \E i \in 1..n : picked = ivs[i]
            /\ holding # {} => picked = ivs[Min(holding)]
            /\ holding = {} /\ now < StartOf(ivs[1]) => picked = ivs[1]
            /\ holding = {} /\ ~(now < StartOf(ivs[1])) => picked = ivs[n]

\* C1 witness: two adjoining intervals in order, now at the instant the first
\* ends and the second starts, and the second one picked.
C1_Witness ==
    /\ picked # None
    /\ Len(ivs) = 2
    /\ StartOf(ivs[1]) < EndOf(ivs[1])
    /\ EndOf(ivs[1]) = StartOf(ivs[2])
    /\ StartOf(ivs[2]) < EndOf(ivs[2])
    /\ Timestamp(now_msk) = StartOf(ivs[2])
    /\ picked = ivs[2]

\* C3: nextSwitch is the end of the interval pick_current selects when that end
\* is strictly after now, and absent otherwise; when present it lies strictly
\* ahead of now, so nextSwitchInSeconds is positive.
C3_NextSwitch ==
    payload # None =>
        LET cur == payload.current
            now == Timestamp(now_msk)
        IN  /\ cur = pick_current(ivs, now_msk)
            /\ IF EndOf(cur) > now
               THEN /\ payload.nextSwitchAtIso = cur.endIso
                    /\ payload.nextSwitchInSeconds = EndOf(cur) - now
                    /\ payload.nextSwitchInSeconds > 0
               ELSE /\ payload.nextSwitchAtIso = None
                    /\ payload.nextSwitchInSeconds = None

\* C3 witness: now is exactly the end of the selected interval and the payload
\* has no nextSwitch.
C3_Witness ==
    /\ payload # None
    /\ EndOf(payload.current) = Timestamp(now_msk)
    /\ StartOf(payload.current) < EndOf(payload.current)
    /\ payload.nextSwitchAtIso = None

\* C4: a request that finds the entry for its key expired goes on to fetch, and
\* a value returned from the cache was stored less than the TTL ago.
C4_ExpiredReadIsMiss ==
    /\ \A p \in Procs : req[p].seen = "stale" => pc[p] = "fetch"
    /\ (ret # None /\ ret.hit) => ret.age < CACHE_TTL_SECONDS

\* C4 witness: the entry of the requested date is still held by the cache, its
\* TTL has elapsed, and the request is on its way to the fetch.
C4_Witness ==
    \E p \in Procs :
        /\ req[p].seen = "stale"
        /\ pc[p] = "fetch"
        /\ timer - stored[req[p].d].at >= CACHE_TTL_SECONDS
        /\ cache_key(req[p].d) \in Keys(cache)

\* C5: a request that finds the entry of its date live goes to the cache, not
\* to the fetcher; its read, made while the entry is still held and its TTL has
\* not elapsed, does not fail; and what it returns is exactly the value the
\* last resolution of the same date stored, never one resolved for another date.
C5_RoundTrip ==
    /\ \A p \in Procs : req[p].seen = "live" => pc[p] = "getitem"
    /\ (ret # None /\ ret.exc = "KeyError") =>
            ~(ret.held /\ ret.age < CACHE_TTL_SECONDS)
    /\ (ret # None /\ ret.hit) =>
            /\ ret.exc = ""
            /\ ~ret.fetched
            /\ ret.value = stored[ret.d].value
            /\ \A i \in 1..Len(ret.value) : ret.value[i].startIso[1] = ret.d.year

\* C5 witness: a hit, while the cache also holds another date's different value.
C5_Witness ==
    /\ ret # None
    /\ ret.hit
    /\ ret.value # <<>>
    /\ \E k \in Keys(cache) : k # cache_key(ret.d) /\ cache.data[k] # ret.value

\* A store that would exceed the capacity: the cache is full and lacks the key.
PutOnFull(p) ==
    /\ ResolveOk(p)
    /\ Cardinality(Keys(cache)) = maxsize
    /\ cache_key(req[p].d) \notin Keys(cache)

\* The same, with every entry held still live.
PutOnFullLive(p) ==
    /\ PutOnFull(p)
    /\ \A d \in Dates : cache_key(d) \in Keys(cache) => entry_state(d) = "live"

\* C9: the cache never holds more than maxsize entries; a store leaves the
\* stored key in; a store that would exceed the capacity removes at least one
\* other entry, and when all entries are live exactly the least recently used.
C9_Capacity ==
    /\ [](Cardinality(Keys(cache)) <= maxsize)
    /\ [][\A p \in Procs :
            /\ ResolveOk(p) => cache_key(req[p].d) \in Keys(cache')
            /\ PutOnFull(p) => \E k \in Keys(cache) : k \notin Keys(cache')
            /\ PutOnFullLive(p) =>
                  Keys(cache') = (Keys(cache) \ {Head(cache.links)}) \cup {cache_key(req[p].d)}
         ]_vars

\* C9 witness: the cache is full and a date stored less than the TTL ago is no
\* longer in it: capacity evicted it.
C9_Witness ==
    /\ Cardinality(Keys(cache)) = maxsize
    /\ \E d \in Dates :
          /\ stored[d].at >= 0
          /\ timer < stored[d].at + CACHE_TTL_SECONDS
          /\ cache_key(d) \notin Keys(cache)

\* The error kinds the interface declares, by the exception that carries them.
DeclaredKind(exc) ==
    CASE exc = "Timeout" -> "Timeout"
      [] exc \in {"RequestException", "Non200"} -> "UpstreamError"
      [] exc \in {"NoMatch", "UnknownMonth"} -> "ParseFailure"
      [] OTHER -> "undeclared"

\* C10: whatever happens to the entry between the membership test and the read,
\* a request ends with an interval list or with a declared error kind.
C10_LookupSafe ==
    ret # None => (ret.exc = "" \/ DeclaredKind(ret.exc) # "undeclared")

\* C2: every interval extract_intervals returns has start before end (the
\* texts that parse all have an end that follows the start in the calendar).
C2_StartBeforeEnd ==
    (ret # None /\ ret.exc = "") =>
        \A i \in 1..Len(ret.value) : StartOf(ret.value[i]) < EndOf(ret.value[i])

\* The first two matches of the page all resolve on their own.
FirstTwoResolve(year, matches) ==
    \A i \in 1..Len(Take(matches, MaxResult)) : interval_of(year, matches[i]).ok

\* C6: with N >= 1 matches of which the first min(N, 2) resolve, a resolution
\* of the fetched page returns exactly those min(N, 2) intervals in text order,
\* whatever the later matches hold.
C6_FirstTwoMatches ==
    (ret # None /\ ret.fetched /\ ret.exc \notin {f[1] : f \in FetchFailures}) =>
        LET matches == finditer(upstream)
            k == Len(Take(matches, MaxResult))
        IN  (k >= 1 /\ FirstTwoResolve(ret.d.year, matches)) =>
                /\ ret.exc = ""
                /\ Len(ret.value) = k
                /\ \A i \in 1..k : ret.value[i] = interval_of(ret.d.year, matches[i]).it

\* The page has a bare "N-й лунный день" phrase.
HasBarePhrase(text) == \E i \in 1..Len(text) : text[i].kind = "bare"

\* C7: a page matching no rule ends in a ParseFailure the caller sees, carrying a
\* non-empty excerpt of the text, with no list returned and no entry stored.
C7_ParseFailureCarriesExcerpt ==
    (ret # None /\ ret.exc = "NoMatch" /\ ~HasBarePhrase(upstream)) =>
        /\ DeclaredKind(ret.exc) = "ParseFailure"
        /\ ret.value = <<>>
        /\ cache_key(ret.d) \notin Keys(cache)
        /\ Len(ret.excerpt) > 0

\* The parts of C7 that do hold: the failure is seen as a 502, nothing is
\* returned and nothing is stored.
C7_FailureStoresNothing ==
    (ret # None /\ ret.exc = "NoMatch") =>
        /\ ret.status = 502
        /\ ret.value = <<>>
        /\ cache_key(ret.d) \notin Keys(cache)

\* C8: a page with no interval match but a bare "N-й лунный день" phrase
\* resolves: the request succeeds with a one-line description.
C8_BareDaySucceeds ==
    (/\ ret # None
     /\ ret.fetched
     /\ ret.exc \notin {f[1] : f \in FetchFailures}
     /\ finditer(upstream) = <<>>
     /\ HasBarePhrase(upstream)) =>
        /\ ret.exc = ""
        /\ Len(ret.value) = 1

====
